---- MODULE Spec2Model ----
(***************************************************************************)
(* Model of src/airline_agent/main.py: the tool invocation helper          *)
(* safe_invoke_tool, run step by step on an arbitrary tool object.         *)
(*                                                                         *)
(* A tool object is described by the attributes safe_invoke_tool probes.   *)
(* Every call the helper makes on the tool has a nondeterministic outcome: *)
(* it raises, returns None, returns a plain value, returns a coroutine     *)
(* (whose await then raises, yields None or yields a value), or returns an *)
(* awaitable that is not a coroutine (a Future/Task, for which             *)
(* asyncio.iscoroutine is False).                                          *)
(*                                                                         *)
(* SpecMain runs main(): create_agents, then the loop over example_queries,*)
(* each query handled by the same safe_invoke_tool steps on update_seat or *)
(* faq_lookup_tool, whose bodies act on the session's context objects.     *)
(***************************************************************************)
EXTENDS Integers, Sequences, FiniteSets, TLC

VARIABLES
    \* one call of safe_invoke_tool
    tool, args, kwargs, pc, idx, last_exc, calls, failed, result,
    retval,           \* the object a tool body returned
    pending,          \* calls whose coroutine or awaitable has not completed yet
    \* main()
    decorated,        \* the objects the names update_seat and faq_lookup_tool denote
    agents,           \* the agents create_agents built
    example_queries,  \* the queries of the session
    qi,               \* index of the query being handled
    mpc,              \* position of main
    responses,        \* what main printed for each query
    shared_ctx,       \* the AirlineAgentContext of the session
    run_ctx,          \* the RunContextWrapper of the session
    ctx_before        \* the two context objects when the current query began

callvars == <<tool, args, kwargs, pc, idx, last_exc, calls, failed, result, retval, pending>>
loopvars == <<decorated, agents, example_queries, qi, mpc, responses, ctx_before>>
heapvars == <<shared_ctx, run_ctx>>
vars == <<callvars, loopvars, heapvars>>

(***************************************************************************)
(* Bounds of the model                                                     *)
(***************************************************************************)
MaxArgs == 3          \* longest positional argument list
MaxSchemaKeys == 2    \* most parameters a params_json_schema declares
MaxAttrs == 1         \* most unwrap attributes a tool object carries
MaxPayloadArgs == 7   \* longest argument list of SpecPayload: one more than the names
MaxRequests == 3      \* most queries of a session (main's example_queries has three)

(***************************************************************************)
(* Python values                                                           *)
(***************************************************************************)
\* the RunContextWrapper instance the caller passes
RunContextWrapper == [kind |-> "ctx", v |-> "run_ctx"]
\* Python None, where it is passed as a value
NoneValue == [kind |-> "none", v |-> "None"]
Str(s) == [kind |-> "str", v |-> s]
\* a value json.dumps cannot serialise
Obj(s) == [kind |-> "obj", v |-> s]

IsRunContextWrapper(a) == a.kind = "ctx"
IsStr(a) == a.kind = "str"

ArgValues == {RunContextWrapper, Str("s1"), Obj("o1")}

RECURSIVE SeqsUpTo(_, _)
SeqsUpTo(S, n) ==
    IF n = 0 THEN {<<>>}
    ELSE LET shorter == SeqsUpTo(S, n - 1)
         IN shorter \cup {Append(s, x) : s \in {t \in shorter : Len(t) = n - 1}, x \in S}

\* candidate argument lists: at most one element is the context (the caller of
\* safe_invoke_tool, main, passes one run_ctx or none) and at most one is an
\* object json.dumps rejects (one is enough to make it fail)
ArgLists == {a \in SeqsUpTo(ArgValues, MaxArgs) :
                /\ Cardinality({i \in 1..Len(a) : IsRunContextWrapper(a[i])}) <= 1
                /\ Cardinality({i \in 1..Len(a) : a[i].kind = "obj"}) <= 1}

\* a dict is a sequence of <<key, value>> pairs in insertion order
DictKeys(d) == {d[i][1] : i \in 1..Len(d)}
DictGet(d, k) == LET i == CHOOSE j \in 1..Len(d) : d[j][1] = k IN d[i][2]
DictSet(d, k, v) ==
    IF k \in DictKeys(d)
    THEN [i \in 1..Len(d) |-> IF d[i][1] = k THEN <<k, v>> ELSE d[i]]
    ELSE Append(d, <<k, v>>)

\* keyword arguments the caller may pass
KwargsChoices == {<<>>, <<<<"b", Str("k1")>>, <<"zz", Str("k2")>>>>}

(***************************************************************************)
(* Tool objects                                                            *)
(***************************************************************************)
UnwrapAttrs == <<"func", "function", "__wrapped__", "_func", "_wrapped">>
AttrNames == {UnwrapAttrs[i] : i \in 1..Len(UnwrapAttrs)}

ParamNames == <<"a", "b", "c", "d">>
NoSchema == [present |-> FALSE, keys |-> <<>>]
Schemas == {NoSchema} \cup
           {[present |-> TRUE, keys |-> SubSeq(ParamNames, 1, n)] : n \in 0..MaxSchemaKeys}

AttrStates == {"absent", "data", "callable"}
AttrMaps == {m \in [AttrNames -> AttrStates] :
                Cardinality({a \in AttrNames : m[a] # "absent"}) <= MaxAttrs}

\* body names the function behind the tool object and wrapper what its
\* on_invoke_tool does with a call; "any" leaves both open
Tools == {t \in [callable : BOOLEAN, run : BOOLEAN, execute : BOOLEAN,
                 on_invoke_tool : BOOLEAN, schema : Schemas, attrs : AttrMaps,
                 body : {"any"}, wrapper : {"any"}] :
             ~t.on_invoke_tool => t.schema = NoSchema}

(***************************************************************************)
(* Outcomes of a call and of an await                                      *)
(***************************************************************************)
CallOutcomes == {"raise", "none", "value", "coroutine", "awaitable"}
AwaitOutcomes == {"raise", "none", "value"}

Running == [status |-> "running", kind |-> "-", from |-> "-"]
Returned(kind, from) == [status |-> "returned", kind |-> kind, from |-> from]
Raised(type, from) == [status |-> "raised", kind |-> type, from |-> from]

Call(label, fn, a, kw) == [label |-> label, fn |-> fn, args |-> a, kwargs |-> kw]

(***************************************************************************)
(* Payload synthesis, lines 121-152                                        *)
(***************************************************************************)
\* [a for a in args if not isinstance(a, RunContextWrapper)]
FilterArgs_KeepsContext(a) == a

FilterArgs(a) == SelectSeq(a, LAMBDA x : ~IsRunContextWrapper(x))

\* for i, val in enumerate(vals): if i < len(names): payload[names[i]] = val
RECURSIVE MapPositional(_, _, _, _)
MapPositional(names, vals, i, payload) ==
    IF i > Len(vals) THEN payload
    ELSE MapPositional(names, vals, i + 1,
                       IF i <= Len(names) THEN DictSet(payload, names[i], vals[i])
                       ELSE payload)

\* for k, v in kwargs.items(): if k in keys: payload[k] = v
RECURSIVE CopyKwargs(_, _, _, _)
CopyKwargs(keys, kw, i, payload) ==
    IF i > Len(kw) THEN payload
    ELSE CopyKwargs(keys, kw, i + 1,
                    IF \E j \in 1..Len(keys) : keys[j] = kw[i][1]
                    THEN DictSet(payload, kw[i][1], kw[i][2])
                    ELSE payload)

common_param_names_WithSeventh ==
    <<"confirmation_number", "new_seat", "seat", "query", "question", "input", "payload">>

common_param_names == <<"confirmation_number", "new_seat", "seat", "query", "question", "input">>

BuildPayload_QuestionOnly(t, a, kw) ==
    IF t.schema.present
    THEN CopyKwargs(t.schema.keys, kw, 1,
                    MapPositional(t.schema.keys, FilterArgs(a), 1, <<>>))
    ELSE IF Len(a) = 1 /\ IsStr(a[1])
         THEN DictSet(<<>>, "question", a[1])
         ELSE MapPositional(common_param_names, FilterArgs(a), 1, <<>>)

BuildPayload(t, a, kw) ==
    IF t.schema.present
    THEN CopyKwargs(t.schema.keys, kw, 1,
                    MapPositional(t.schema.keys, FilterArgs(a), 1, <<>>))
    ELSE IF Len(a) = 1 /\ IsStr(a[1])
         THEN DictSet(DictSet(DictSet(<<>>, "question", a[1]), "query", a[1]), "input", a[1])
         ELSE MapPositional(common_param_names, FilterArgs(a), 1, <<>>)

\* lines 155-159: the first RunContextWrapper among the arguments, else None
RunCtxArg(a) ==
    IF \E i \in 1..Len(a) : IsRunContextWrapper(a[i])
    THEN a[CHOOSE i \in 1..Len(a) :
               /\ IsRunContextWrapper(a[i])
               /\ \A j \in 1..(i - 1) : ~IsRunContextWrapper(a[j])]
    ELSE NoneValue

\* lines 168-171: _DummyToolCtx(run_ctx)
DummyToolCtx_Copies(ctx) ==
    [kind |-> "ToolCtx",
     context |-> IF ctx.kind = "ctx" THEN [kind |-> "ctx", v |-> "copy of run_ctx"] ELSE ctx]

DummyToolCtx(ctx) == [kind |-> "ToolCtx", context |-> ctx]

\* json.dumps(payload): the text of the dict, or TypeError on a value that is
\* not serialisable (an arbitrary object, or the RunContextWrapper)
JsonSerializable(payload) == \A i \in 1..Len(payload) : payload[i][2].kind \in {"str", "none"}
JsonDumps(payload) == [kind |-> "json", text |-> payload]
RawDict(payload) == [kind |-> "dict", items |-> payload]

(***************************************************************************)
(* lines 161-204: the list of on_invoke_tool attempts.  An attempt is the  *)
(* call it makes: form names the signature, args and kwargs what           *)
(* on_invoke_tool receives, dumps whether it first evaluates json.dumps.   *)
(***************************************************************************)
Attempt(form, a, kw, dumps) == [form |-> form, args |-> a, kwargs |-> kw, dumps |-> dumps]

PositionalAttempts(t, a, kw) ==
    LET payload == BuildPayload(t, a, kw)
        run_ctx_arg == RunCtxArg(a)
        filtered_args == FilterArgs(a)
    IN  <<Attempt("i", <<DummyToolCtx(run_ctx_arg), JsonDumps(payload)>>, <<>>, TRUE),
          Attempt("ii", <<DummyToolCtx(run_ctx_arg), RawDict(payload)>>, <<>>, FALSE)>>
        \o (IF Len(filtered_args) = 1 /\ IsStr(filtered_args[1])
            THEN <<Attempt("iii", <<filtered_args[1]>>, <<>>, FALSE)>>
            ELSE <<>>)
        \o <<Attempt("iv", a, <<>>, FALSE),
             Attempt("v", filtered_args, <<>>, FALSE)>>
        \o (IF run_ctx_arg # NoneValue
            THEN <<Attempt("vi", Append(filtered_args, run_ctx_arg), <<>>, FALSE),
                   Attempt("vii", <<run_ctx_arg>> \o filtered_args, <<>>, FALSE),
                   Attempt("viii", <<run_ctx_arg>>, <<>>, FALSE)>>
            ELSE <<>>)
        \o <<Attempt("ix", <<>>, payload, FALSE)>>

\* lines 224-227: the first attribute of the tuple that exists and is callable
RECURSIVE FirstCallableAttr(_, _)
FirstCallableAttr(t, i) ==
    IF i > Len(UnwrapAttrs) THEN "none"
    ELSE IF t.attrs[UnwrapAttrs[i]] = "callable" THEN UnwrapAttrs[i]
    ELSE FirstCallableAttr(t, i + 1)

(***************************************************************************)
(* main's objects, lines 35-74 and 283-303                                 *)
(***************************************************************************)
\* lines 36-41: AirlineAgentContext()
AirlineAgentContext ==
    [passenger_name |-> NoneValue, confirmation_number |-> NoneValue,
     seat_number |-> NoneValue, flight_number |-> NoneValue]

\* line 287: RunContextWrapper(shared_ctx).  context refers to shared_ctx; the
\* other fields are the attributes a setattr on the wrapper itself creates
\* (getattr(..., None) reads an attribute that was never set as None)
RunContextWrapperObject ==
    [context |-> "shared_ctx", confirmation_number |-> NoneValue,
     seat_number |-> NoneValue, flight_number |-> NoneValue]

\* lines 289-293, and one question that names a keyword of the third group
Queries == {"What's the baggage policy?", "I want to change my seat",
            "Do you have Wi-Fi?", "Is there wifi on board?"}

\* the keywords of lines 50, 55, 60 and 300 that occur in q.lower()
KeywordsIn(q) ==
    CASE q = "What's the baggage policy?" -> {"baggage", "bag"}
      [] q = "I want to change my seat" -> {"seat", "change my seat"}
      [] q = "Is there wifi on board?" -> {"wifi"}
      [] OTHER -> {}

\* line 300
IsSeatQuery(q) == KeywordsIn(q) \cap {"seat", "change my seat", "seat change"} # {}

\* line 303 passes ("ABC123", "12A"); a second pair makes two updates differ
SeatArgs == {<<Str("ABC123"), Str("12A")>>, <<Str("XYZ789"), Str("14C")>>}

\* line 70: f"FLT-{random.randint(100,999)}", the two ends of the range
FlightNumbers == {Str("FLT-100"), Str("FLT-999")}

\* lines 49-63: faq_lookup_tool's answer
FaqAnswer(question) ==
    LET k == KeywordsIn(question.v)
    IN  IF k \cap {"baggage", "luggage", "carry-on", "bag", "weight"} # {}
        THEN Str("You are allowed to bring one bag on the plane. ...")
        ELSE IF k \cap {"seat", "seats", "seating", "economy", "business", "exit row"} # {}
        THEN Str("There are 120 seats on the plane. ...")
        ELSE IF k \cap {"wifi", "internet", "connectivity", "network"} # {}
        THEN Str("We have free wifi on the plane, join Airline-Wifi")
        ELSE Str("I'm sorry, I don't know the answer to that question")

\* line 74: the f-string update_seat returns
SeatMessage(new_seat, confirmation_number, flight_number) ==
    [kind |-> "str", v |-> "Updated seat",
     new_seat |-> new_seat, confirmation_number |-> confirmation_number,
     flight_number |-> flight_number]

\* lines 47-48 and 66-67: the parameters after the context, and whether the
\* function takes the context first
ParamsOf(body) ==
    IF body = "update_seat" THEN <<"confirmation_number", "new_seat">> ELSE <<"question">>
TakesContext(body) == body = "update_seat"

(***************************************************************************)
(* The shapes the objects update_seat and faq_lookup_tool may have.        *)
(* @function_tool comes from the agents package: "FunctionTool" is the     *)
(* object that package builds (not callable, params_json_schema, an async  *)
(* on_invoke_tool(ctx, input_json) that hands ctx to the function as its   *)
(* context argument); the others are the shapes safe_invoke_tool provides  *)
(* for: the plain function, an object with .run or .execute, an object     *)
(* whose on_invoke_tool accepts none of the nine forms, with and without   *)
(* the function under .func                                                *)
(***************************************************************************)
ToolKinds == {"function", "run", "execute", "FunctionTool", "wrapped", "unsupported"}

NoAttrs == [a \in AttrNames |-> "absent"]

MainTool(kind, body) ==
    [callable |-> kind = "function", run |-> kind = "run", execute |-> kind = "execute",
     on_invoke_tool |-> kind \in {"FunctionTool", "wrapped", "unsupported"},
     schema |-> IF kind = "FunctionTool"
                THEN [present |-> TRUE, keys |-> ParamsOf(body)] ELSE NoSchema,
     attrs |-> IF kind = "wrapped" THEN [NoAttrs EXCEPT !["func"] = "callable"] ELSE NoAttrs,
     body |-> body,
     wrapper |-> IF kind = "FunctionTool" THEN "function_tool" ELSE "rejecting"]

\* lines 47 and 66: the two decorated names
Decorated(seat_kind, faq_kind) ==
    [update_seat |-> MainTool(seat_kind, "update_seat"),
     faq_lookup_tool |-> MainTool(faq_kind, "faq_lookup_tool")]

\* what the function receives from call c of tool t: ok is whether the call
\* binds its parameters, context and a are the values bound
Binding(ok, context, a) == [ok |-> ok, context |-> context, a |-> a]

BindCall(t, c) ==
    LET n == Len(ParamsOf(t.body))
    IN  IF c.fn = "on_invoke_tool"
        THEN \* on_invoke_tool(ctx, input_json): the JSON text must hold exactly
             \* the parameters of the schema
             IF /\ t.wrapper = "function_tool"
                /\ Len(c.args) = 2 /\ c.kwargs = <<>>
                /\ c.args[2].kind = "json"
                /\ DictKeys(c.args[2].text) = {t.schema.keys[i] : i \in 1..n}
             THEN Binding(TRUE, c.args[1],
                          [i \in 1..n |-> DictGet(c.args[2].text, t.schema.keys[i])])
             ELSE Binding(FALSE, NoneValue, <<>>)
        ELSE \* the function itself, called with the caller's arguments
             IF TakesContext(t.body)
             THEN IF Len(c.args) = n + 1 /\ c.kwargs = <<>>
                  THEN Binding(TRUE, c.args[1], SubSeq(c.args, 2, n + 1))
                  ELSE Binding(FALSE, NoneValue, <<>>)
             ELSE IF Len(c.args) = n /\ c.kwargs = <<>>
                  THEN Binding(TRUE, NoneValue, c.args)
                  ELSE Binding(FALSE, NoneValue, <<>>)

\* lines 69-73: the object context.context denotes, "none" when the
\* attribute access or the assignment fails
ContextTarget(context) ==
    IF context.kind = "ctx" THEN "shared_ctx"
    ELSE IF context.kind = "ToolCtx" /\ context.context.kind = "ctx" THEN "run_ctx"
    ELSE "none"

\* whether the body runs to its return statement
BodyCompletes(t, b) ==
    /\ b.ok
    /\ \A i \in 1..Len(b.a) : IsStr(b.a[i])
    /\ TakesContext(t.body) => ContextTarget(b.context) # "none"

\* the call itself: an async def returns a coroutine when the arguments fit
\* its signature and raises TypeError when they do not
CallOutcomesOf(t, c) ==
    IF t.body = "any" THEN CallOutcomes
    ELSE IF c.fn = "on_invoke_tool"
         THEN IF Len(c.args) = 2 /\ c.kwargs = <<>> THEN {"coroutine"} ELSE {"raise"}
         ELSE IF BindCall(t, c).ok THEN {"coroutine"} ELSE {"raise"}

AwaitOutcomesOf(t, c) ==
    IF t.body = "any" THEN AwaitOutcomes
    ELSE IF BodyCompletes(t, BindCall(t, c)) THEN {"value"} ELSE {"raise"}

\* lines 69-72: the three assignments on the object context.context denotes
SeatFields(obj, confirmation_number, new_seat, generated) ==
    [obj EXCEPT !.flight_number = IF @ = NoneValue THEN generated ELSE @,
                !.confirmation_number = confirmation_number,
                !.seat_number = new_seat]

\* lines 67-74
update_seat(context, confirmation_number, new_seat) ==
    \E generated \in FlightNumbers :
      IF ContextTarget(context) = "shared_ctx"
      THEN /\ shared_ctx' = SeatFields(shared_ctx, confirmation_number, new_seat, generated)
           /\ retval' = SeatMessage(new_seat, confirmation_number, shared_ctx'.flight_number)
           /\ UNCHANGED run_ctx
      ELSE /\ run_ctx' = SeatFields(run_ctx, confirmation_number, new_seat, generated)
           /\ retval' = SeatMessage(new_seat, confirmation_number, run_ctx'.flight_number)
           /\ UNCHANGED shared_ctx

\* lines 48-63
faq_lookup_tool_ResetsFlight(question) ==
    /\ retval' = FaqAnswer(question)
    /\ shared_ctx' = [shared_ctx EXCEPT !.flight_number = NoneValue]
    /\ UNCHANGED run_ctx

faq_lookup_tool(question) ==
    /\ retval' = FaqAnswer(question)
    /\ UNCHANGED <<shared_ctx, run_ctx>>

\* the effect of the await that ends with outcome o on the coroutine of call c
Body(c, o) ==
    IF tool.body = "any" \/ o = "raise"
    THEN UNCHANGED <<shared_ctx, run_ctx, retval>>
    ELSE LET b == BindCall(tool, c)
         IN IF tool.body = "update_seat"
            THEN update_seat(b.context, b.a[1], b.a[2])
            ELSE faq_lookup_tool(b.a[1])

\* what the call returned is pending until an await completes it
Started(o) ==
    /\ pending' = IF o \in {"coroutine", "awaitable"}
                  THEN pending \cup {Len(calls) + 1} ELSE pending
    /\ UNCHANGED <<shared_ctx, run_ctx, retval>>

Completed(o) ==
    /\ pending' = pending \ {Len(calls)}
    /\ Body(calls[Len(calls)], o)

NoCall == UNCHANGED <<pending, shared_ctx, run_ctx, retval>>

\* safe_invoke_tool is entered with tool_obj, args and kwargs
Enter(t, a, kw) ==
    /\ tool' = t
    /\ args' = a
    /\ kwargs' = kw
    /\ pc' = "direct"
    /\ idx' = 0
    /\ last_exc' = "unbound"
    /\ calls' = <<>>
    /\ failed' = {}
    /\ result' = Running

\* one call of safe_invoke_tool on any tool object with any arguments
Init ==
    /\ tool \in Tools
    /\ args \in ArgLists
    /\ kwargs \in KwargsChoices
    /\ pc = "direct"
    /\ idx = 0
    /\ last_exc = "unbound"
    /\ calls = <<>>
    /\ failed = {}
    /\ result = Running
    /\ retval = NoneValue
    /\ pending = {}
    /\ decorated = Decorated("FunctionTool", "FunctionTool")
    /\ agents = <<>>
    /\ example_queries = <<>>
    /\ qi = 0
    /\ mpc = "none"
    /\ responses = <<>>
    /\ shared_ctx = AirlineAgentContext
    /\ run_ctx = RunContextWrapperObject
    /\ ctx_before = <<shared_ctx, run_ctx>>

\* lines 99-101: except Exception: pass, the direct call's error is swallowed
DirectRaised_Propagates ==
    /\ pc' = "done"
    /\ failed' = failed \cup {"direct"}
    /\ result' = Raised("ToolError", "direct")

DirectRaised ==
    /\ pc' = "run"
    /\ failed' = failed \cup {"direct"}
    /\ UNCHANGED result

\* lines 97-98: return await res / return res
DirectReturn_FallsThrough(o) ==
    /\ pc' = "run"
    /\ UNCHANGED <<failed, result>>

DirectReturn(o) ==
    /\ pc' = "done"
    /\ result' = Returned(o, "direct")
    /\ UNCHANGED failed

\* lines 92-98: direct call if callable, inside the try
DirectCall ==
    /\ pc = "direct"
    /\ UNCHANGED <<tool, args, kwargs, idx, last_exc, loopvars>>
    /\ IF ~tool.callable
       THEN /\ pc' = "run"
            /\ NoCall
            /\ UNCHANGED <<calls, failed, result>>
       ELSE LET c == Call("direct", "tool_obj", args, kwargs)
            IN /\ calls' = Append(calls, c)
               /\ \E o \in CallOutcomesOf(tool, c) :
                    /\ Started(o)
                    /\ CASE o = "raise" -> DirectRaised
                         [] o = "coroutine" ->
                              /\ pc' = "direct_await"
                              /\ UNCHANGED <<failed, result>>
                         [] OTHER -> DirectReturn(o)

\* line 97: return await res, inside the try
DirectAwait ==
    /\ pc = "direct_await"
    /\ UNCHANGED <<tool, args, kwargs, idx, last_exc, calls, loopvars>>
    /\ \E o \in AwaitOutcomesOf(tool, calls[Len(calls)]) :
         /\ Completed(o)
         /\ IF o = "raise" THEN DirectRaised ELSE DirectReturn(o)

\* lines 105-107 and 112-114: no try around .run() / .execute(), the error
\* leaves safe_invoke_tool
NamedRaised_Swallowed(name) ==
    /\ pc' = "on_invoke_tool"
    /\ failed' = failed \cup {name}
    /\ UNCHANGED result

NamedRaised(name) ==
    /\ pc' = "done"
    /\ failed' = failed \cup {name}
    /\ result' = Raised("ToolError", name)

\* lines 103-108 (.run) and 110-115 (.execute)
NamedCall(name, next) ==
    /\ pc = name
    /\ UNCHANGED <<tool, args, kwargs, idx, last_exc, loopvars>>
    /\ IF ~tool[name]
       THEN /\ pc' = next
            /\ NoCall
            /\ UNCHANGED <<calls, failed, result>>
       ELSE LET c == Call(name, name, args, kwargs)
            IN /\ calls' = Append(calls, c)
               /\ \E o \in CallOutcomesOf(tool, c) :
                    /\ Started(o)
                    /\ CASE o = "raise" -> NamedRaised(name)
                         [] o = "coroutine" ->
                              /\ pc' = name \o "_await"
                              /\ UNCHANGED <<failed, result>>
                         [] OTHER ->
                              /\ pc' = "done"
                              /\ result' = Returned(o, name)
                              /\ UNCHANGED failed

NamedAwait(name) ==
    /\ pc = name \o "_await"
    /\ UNCHANGED <<tool, args, kwargs, idx, last_exc, calls, loopvars>>
    /\ \E o \in AwaitOutcomesOf(tool, calls[Len(calls)]) :
         /\ Completed(o)
         /\ IF o = "raise"
            THEN NamedRaised(name)
            ELSE /\ pc' = "done"
                 /\ result' = Returned(o, name)
                 /\ UNCHANGED failed

RunCall == NamedCall("run", "execute")
RunAwait == NamedAwait("run")
ExecuteCall == NamedCall("execute", "on_invoke_tool")
ExecuteAwait == NamedAwait("execute")

\* lines 117-204: enter the on_invoke_tool block, which binds last_exc = None
OnInvokeSetup ==
    /\ pc = "on_invoke_tool"
    /\ UNCHANGED <<tool, args, kwargs, calls, failed, result, loopvars>>
    /\ NoCall
    /\ IF tool.on_invoke_tool
       THEN /\ pc' = "attempt"
            /\ idx' = 1
            /\ last_exc' = "None"
       ELSE /\ pc' = "last_exc"
            /\ UNCHANGED <<idx, last_exc>>

\* lines 206-218: one iteration of the loop over labeled_attempts
\* line 206: the for loop takes the next element of labeled_attempts
NextAttempt ==
    /\ pc' = "attempt"
    /\ idx' = idx + 1

\* lines 212-213: the coroutine is awaited before anything else is tried
AttemptSuspended ==
    /\ pc' = "attempt_await"
    /\ UNCHANGED <<idx, last_exc, failed, result>>

TryAttempt ==
    /\ pc = "attempt"
    /\ UNCHANGED <<tool, args, kwargs, loopvars>>
    /\ LET attempts == PositionalAttempts(tool, args, kwargs)
       IN IF idx > Len(attempts)
          THEN /\ pc' = "last_exc"
               /\ failed' = failed \cup {"on_invoke_tool"}
               /\ NoCall
               /\ UNCHANGED <<idx, last_exc, calls, result>>
          ELSE LET at == attempts[idx]
               IN IF at.dumps /\ ~JsonSerializable(at.args[2].text)
                  THEN /\ calls' = Append(calls, Call(at.form, "json.dumps",
                                                      <<RawDict(at.args[2].text)>>, <<>>))
                       /\ last_exc' = "TypeError"
                       /\ failed' = failed \cup {at.form}
                       /\ NextAttempt
                       /\ Started("raise")
                       /\ UNCHANGED result
                  ELSE LET c == Call(at.form, "on_invoke_tool", at.args, at.kwargs)
                       IN /\ calls' = Append(calls, c)
                          /\ \E o \in CallOutcomesOf(tool, c) :
                               /\ Started(o)
                               /\ CASE o = "raise" ->
                                         /\ last_exc' = "ToolError"
                                         /\ failed' = failed \cup {at.form}
                                         /\ NextAttempt
                                         /\ UNCHANGED result
                                    [] o = "none" ->
                                         /\ failed' = failed \cup {at.form}
                                         /\ NextAttempt
                                         /\ UNCHANGED <<last_exc, result>>
                                    [] o = "coroutine" -> AttemptSuspended
                                    [] OTHER ->
                                         /\ pc' = "done"
                                         /\ result' = Returned(o, at.form)
                                         /\ UNCHANGED <<idx, last_exc, failed>>

\* line 213: return await result, inside the try of the loop body
AttemptAwaitReturn(o, form) ==
    /\ pc' = "done"
    /\ result' = Returned(o, form)
    /\ UNCHANGED <<idx, last_exc, failed>>

AttemptAwait ==
    /\ pc = "attempt_await"
    /\ UNCHANGED <<tool, args, kwargs, calls, loopvars>>
    /\ LET at == PositionalAttempts(tool, args, kwargs)[idx]
       IN \E o \in AwaitOutcomesOf(tool, calls[Len(calls)]) :
            /\ Completed(o)
            /\ IF o = "raise"
               THEN /\ last_exc' = "ToolError"
                    /\ failed' = failed \cup {at.form}
                    /\ NextAttempt
                    /\ UNCHANGED result
               ELSE AttemptAwaitReturn(o, at.form)

\* line 221: on_invoke_last_exc = last_exc, at function level: last_exc is a
\* local bound only inside the on_invoke_tool block (line 197)
ReadLastExc ==
    /\ pc = "last_exc"
    /\ UNCHANGED <<tool, args, kwargs, idx, last_exc, calls, failed, loopvars>>
    /\ NoCall
    /\ IF last_exc = "unbound"
       THEN /\ pc' = "done"
            /\ result' = Raised("UnboundLocalError", "safe_invoke_tool")
       ELSE /\ pc' = "unwrap"
            /\ UNCHANGED result

\* lines 223-237: call the first callable underlying attribute, not fenced;
\* with none, raise the AttributeError that lists dir(tool_obj)
Unwrap ==
    /\ pc = "unwrap"
    /\ UNCHANGED <<tool, args, kwargs, idx, last_exc, loopvars>>
    /\ LET attr == FirstCallableAttr(tool, 1)
       IN IF attr = "none"
          THEN /\ pc' = "done"
               /\ result' = Raised("AttributeError", "safe_invoke_tool")
               /\ NoCall
               /\ UNCHANGED <<calls, failed>>
          ELSE LET c == Call("unwrap", attr, args, kwargs)
               IN /\ calls' = Append(calls, c)
                  /\ \E o \in CallOutcomesOf(tool, c) :
                       /\ Started(o)
                       /\ CASE o = "raise" ->
                                 /\ pc' = "done"
                                 /\ failed' = failed \cup {"unwrap"}
                                 /\ result' = Raised("ToolError", "unwrap")
                            [] o = "coroutine" ->
                                 /\ pc' = "unwrap_await"
                                 /\ UNCHANGED <<failed, result>>
                            [] OTHER ->
                                 /\ pc' = "done"
                                 /\ result' = Returned(o, "unwrap")
                                 /\ UNCHANGED failed

UnwrapAwait ==
    /\ pc = "unwrap_await"
    /\ UNCHANGED <<tool, args, kwargs, idx, last_exc, calls, loopvars>>
    /\ \E o \in AwaitOutcomesOf(tool, calls[Len(calls)]) :
         /\ Completed(o)
         /\ IF o = "raise"
            THEN /\ pc' = "done"
                 /\ failed' = failed \cup {"unwrap"}
                 /\ result' = Raised("ToolError", "unwrap")
            ELSE /\ pc' = "done"
                 /\ result' = Returned(o, "unwrap")
                 /\ UNCHANGED failed

(***************************************************************************)
(* Vocabulary of the properties                                            *)
(***************************************************************************)
Done == pc = "done"
SubForms == {"i", "ii", "iii", "iv", "v", "vi", "vii", "viii", "ix"}
FormOrder == <<"i", "ii", "iii", "iv", "v", "vi", "vii", "viii", "ix">>
FormIndex(f) == CHOOSE n \in 1..Len(FormOrder) : FormOrder[n] = f

HasInnerCallable(t) == \E a \in AttrNames : t.attrs[a] = "callable"
ExposesNoAxis(t) ==
    ~t.callable /\ ~t.run /\ ~t.execute /\ ~t.on_invoke_tool /\ ~HasInnerCallable(t)
DirectOnly(t) ==
    t.callable /\ ~t.run /\ ~t.execute /\ ~t.on_invoke_tool /\ ~HasInnerCallable(t)

UnsupportedToolShape == Raised("AttributeError", "safe_invoke_tool")

\* rank of the strategy an entry of the call log belongs to
Rank(label) ==
    CASE label = "direct" -> 1
      [] label = "run" -> 2
      [] label = "execute" -> 3
      [] label \in SubForms -> 4
      [] label = "unwrap" -> 5
Attempted(label) == \E j \in 1..Len(calls) : calls[j].label = label
Min(m, n) == IF m <= n THEN m ELSE n
InDict(d, k, v) == k \in DictKeys(d) /\ DictGet(d, k) = v

\* C1: a tool exposing none of the five axes makes safe_invoke_tool fail with
\* the final AttributeError (UnsupportedToolShape) and with no other error.
C1_ExhaustionIsUnsupportedToolShape ==
    (Done /\ ExposesNoAxis(tool)) => result = UnsupportedToolShape

\* C2: when direct, run, execute and on_invoke_tool produced no result (also
\* when the tool has none of them) and the tool has a callable inner
\* attribute, the first such attribute is called with the original arguments
\* and its result is what safe_invoke_tool returns.
C2_UnwrapFallback ==
    (/\ Done
     /\ HasInnerCallable(tool)
     /\ result.from \notin ({"direct", "run", "execute"} \cup SubForms))
    => /\ Len(calls) > 0
       /\ calls[Len(calls)] = Call("unwrap", FirstCallableAttr(tool, 1), args, kwargs)
       /\ result.from = "unwrap"

\* C3: when .run (or, with no .run, .execute) raises, that error leaves
\* safe_invoke_tool and neither on_invoke_tool nor an inner attribute is tried.
C3_NamedMethodErrorPropagates ==
    \A name \in {"run", "execute"} :
        name \in failed =>
            /\ result = Raised("ToolError", name)
            /\ pc = "done"
            /\ name = "execute" => ~tool.run
            /\ \A j \in 1..Len(calls) : Rank(calls[j].label) <= Rank(name)

C3_Witness ==
    /\ Done
    /\ "run" \in failed
    /\ "direct" \in failed
    /\ tool.on_invoke_tool
    /\ HasInnerCallable(tool)

\* C4: calls are made in the order direct, run, execute, on_invoke_tool,
\* inner attribute; a strategy is called only after every higher strategy
\* the tool exposes was called and failed; execute only without run; and a
\* tool whose direct call raises and whose run succeeds returns run's result.
C4_StrategyOrder ==
    /\ \A j \in 1..Len(calls) :
         LET r == Rank(calls[j].label)
         IN /\ \A k \in 1..(j - 1) :
                 \/ Rank(calls[k].label) < r
                 \/ Rank(calls[k].label) = 4 /\ r = 4
            /\ (r > 1 /\ tool.callable) => "direct" \in failed /\ calls[1].label = "direct"
            /\ (r > 2 /\ tool.run) => "run" \in failed
            /\ r = 3 => ~tool.run
            /\ (r > 3 /\ tool.execute) => "execute" \in failed
            /\ (r > 4 /\ tool.on_invoke_tool) => "on_invoke_tool" \in failed
    /\ (Done /\ "direct" \in failed /\ tool.run /\ "run" \notin failed)
         => result.status = "returned" /\ result.from = "run"

C4_Witness ==
    /\ Done
    /\ tool.callable
    /\ "direct" \in failed
    /\ tool.run
    /\ result = Returned("value", "run")
    /\ Len(calls) = 2

C6_SubAttemptOrder ==
    /\ \A j \in 1..Len(calls) : \A k \in 1..(j - 1) :
         (calls[j].label \in SubForms /\ calls[k].label \in SubForms)
             => FormIndex(calls[k].label) < FormIndex(calls[j].label)
    /\ (Done /\ result.status = "returned" /\ result.from \in SubForms) =>
         /\ result.kind # "none"
         /\ calls[Len(calls)].label = result.from
         /\ \A j \in 1..(Len(calls) - 1) :
              calls[j].label \in SubForms => calls[j].label \in failed

\* C7: safe_invoke_tool never returns None from an on_invoke_tool sub-attempt
\* while a later sub-attempt is still untried, whether the None came from the
\* call or from awaiting it.
C7_NoneIsDiscarded ==
    ~(/\ Done
      /\ result.status = "returned"
      /\ result.from \in SubForms
      /\ result.kind = "none"
      /\ idx < Len(PositionalAttempts(tool, args, kwargs)))

\* C8: once the direct call, an on_invoke_tool sub-attempt or the inner
\* callable has failed, that error never leaves safe_invoke_tool: the call
\* returns the result of a later strategy, or fails with UnsupportedToolShape
\* (or with the error of .run / .execute, which is propagated by design).
C8_NoRawErrorSurfaces ==
    (Done /\ failed \cap ({"direct", "unwrap"} \cup SubForms) # {}) =>
        \/ result.status = "returned"
        \/ result = UnsupportedToolShape
        \/ result \in {Raised("ToolError", "run"), Raised("ToolError", "execute")}

\* C9: with a schema of ordered parameters and no keyword arguments, the
\* payload on_invoke_tool receives binds the i-th non-context argument to the
\* i-th schema parameter and nothing else: [a, b] and (x, y) give {a: x, b: y}.
C9_SchemaPayload ==
    (tool.schema.present /\ kwargs = <<>>) =>
        LET keys == tool.schema.keys
            nonctx == SelectSeq(args, LAMBDA x : x # RunContextWrapper)
            n == Min(Len(keys), Len(nonctx))
            IsZip(d) == /\ Len(d) = n
                        /\ \A i \in 1..n : InDict(d, keys[i], nonctx[i])
        IN \A j \in 1..Len(calls) :
             /\ (calls[j].label = "i" /\ calls[j].fn = "on_invoke_tool")
                    => IsZip(calls[j].args[2].text)
             /\ calls[j].label = "ii" => IsZip(calls[j].args[2].items)
             /\ calls[j].label = "ix" => IsZip(calls[j].kwargs)

C9_Witness ==
    /\ tool.schema.present
    /\ tool.schema.keys = <<"a", "b">>
    /\ kwargs = <<>>
    /\ args = <<Str("s1"), RunContextWrapper, Obj("o1")>>
    /\ Attempted("ii")
    /\ calls[Len(calls)].label = "ii"
    /\ calls[Len(calls)].args[2].items = <<<<"a", Str("s1")>>, <<"b", Obj("o1")>>>>

\* C10: without a schema, a single string argument s gives a payload with
\* question = s, query = s and input = s; several arguments bind the
\* non-context ones, in order, to confirmation_number, new_seat, seat, query,
\* question, input.
C10_SchemalessPayload ==
    ~tool.schema.present =>
        LET nonctx == SelectSeq(args, LAMBDA x : x # RunContextWrapper)
            n == Min(Len(common_param_names), Len(nonctx))
            Good(d) ==
                /\ (Len(args) = 1 /\ args[1].kind = "str") =>
                       /\ InDict(d, "question", args[1])
                       /\ InDict(d, "query", args[1])
                       /\ InDict(d, "input", args[1])
                /\ Len(args) >= 2 =>
                       /\ Len(d) = n
                       /\ \A i \in 1..n : InDict(d, common_param_names[i], nonctx[i])
        IN \A j \in 1..Len(calls) :
             /\ (calls[j].label = "i" /\ calls[j].fn = "on_invoke_tool")
                    => Good(calls[j].args[2].text)
             /\ calls[j].label = "ii" => Good(calls[j].args[2].items)
             /\ calls[j].label = "ix" => Good(calls[j].kwargs)

C10_Witness ==
    /\ ~tool.schema.present
    /\ args = <<Str("s1")>>
    /\ Len(calls) > 0
    /\ calls[Len(calls)] = Call("i", "on_invoke_tool",
                                <<DummyToolCtx(NoneValue),
                                  JsonDumps(<<<<"question", Str("s1")>>, <<"query", Str("s1")>>,
                                              <<"input", Str("s1")>>>>)>>, <<>>)

\* C14: whatever safe_invoke_tool returns is a completed value (None or a
\* value), never a result of the tool that is still pending.
C14_ReturnsCompletedValue ==
    (Done /\ result.status = "returned") => result.kind \in {"none", "value"}

\* C17: no label of the call log occurs twice (each strategy and each
\* sub-attempt is made at most once), and on_invoke_tool is never called twice
\* with the same positional and keyword arguments.
C17_NoRetries ==
    \A j, k \in 1..Len(calls) :
       j < k =>
         /\ calls[j].label # calls[k].label
         /\ (calls[j].fn = "on_invoke_tool" /\ calls[k].fn = "on_invoke_tool")
                => <<calls[j].args, calls[j].kwargs>> # <<calls[k].args, calls[k].kwargs>>

Next ==
    \/ DirectCall
    \/ DirectAwait
    \/ RunCall
    \/ RunAwait
    \/ ExecuteCall
    \/ ExecuteAwait
    \/ OnInvokeSetup
    \/ TryAttempt
    \/ AttemptAwait
    \/ ReadLastExc
    \/ Unwrap
    \/ UnwrapAwait

Spec == Init /\ [][Next]_vars

(***************************************************************************)
(* main(), lines 280-315, and create_agents, lines 244-273                 *)
(***************************************************************************)
AgentNames == {"Triage Agent", "FAQ Agent", "Seat Booking Agent"}

\* lines 265-266
ToolsOf(name) ==
    CASE name = "FAQ Agent" -> <<"faq_lookup_tool">>
      [] name = "Seat Booking Agent" -> <<"update_seat">>
      [] OTHER -> <<>>

\* lines 269-271: handoff(agent) for each target
HandoffsOf_TriageToFaqOnly(name) ==
    CASE name = "FAQ Agent" -> <<"Triage Agent">>
      [] name = "Seat Booking Agent" -> <<"Triage Agent">>
      [] OTHER -> <<"FAQ Agent">>

HandoffsOf(name) ==
    CASE name = "FAQ Agent" -> <<"Triage Agent">>
      [] name = "Seat Booking Agent" -> <<"Triage Agent">>
      [] OTHER -> <<"FAQ Agent", "Seat Booking Agent">>

NoResponse == [kind |-> "none", v |-> "None"]

\* a session: the shapes of the two tools and the queries are open
MainInit ==
    /\ decorated \in {Decorated(sk, fk) : sk \in ToolKinds, fk \in ToolKinds}
    /\ example_queries \in SeqsUpTo(Queries, MaxRequests)
    /\ mpc = "create_agents"
    /\ qi = 0
    /\ agents = <<>>
    /\ responses = <<>>
    /\ shared_ctx = AirlineAgentContext
    /\ run_ctx = RunContextWrapperObject
    /\ ctx_before = <<shared_ctx, run_ctx>>
    /\ tool = decorated.faq_lookup_tool
    /\ args = <<>>
    /\ kwargs = <<>>
    /\ pc = "idle"
    /\ idx = 0
    /\ last_exc = "unbound"
    /\ calls = <<>>
    /\ failed = {}
    /\ result = Running
    /\ retval = NoneValue
    /\ pending = {}

\* line 283 and lines 244-273
CreateAgents ==
    /\ mpc = "create_agents"
    /\ agents' = [a \in AgentNames |-> [tools |-> ToolsOf(a), handoffs |-> HandoffsOf(a)]]
    /\ mpc' = "loop"
    /\ qi' = 1
    /\ UNCHANGED <<callvars, heapvars, decorated, example_queries, responses, ctx_before>>

\* lines 297-308: the for loop takes the next query and calls safe_invoke_tool
StartRequest ==
    /\ mpc = "loop"
    /\ qi <= Len(example_queries)
    /\ LET q == example_queries[qi]
       IN IF IsSeatQuery(q)
          THEN \E sa \in SeatArgs :
                 Enter(decorated.update_seat, <<RunContextWrapper, sa[1], sa[2]>>, <<>>)
          ELSE Enter(decorated.faq_lookup_tool, <<Str(q)>>, <<>>)
    /\ mpc' = "calling"
    /\ ctx_before' = <<shared_ctx, run_ctx>>
    /\ retval' = NoneValue
    /\ UNCHANGED <<pending, heapvars, decorated, agents, example_queries, qi, responses>>

\* lines 297 and 310-313: after the response or the except clause the loop
\* goes on with the next query
NextQuery_StopsOnError ==
    IF result.status = "raised"
    THEN mpc' = "complete" /\ qi' = qi
    ELSE mpc' = "loop" /\ qi' = qi + 1

NextQuery ==
    /\ mpc' = "loop"
    /\ qi' = qi + 1

\* lines 304, 308 and 310-313: print the response, or the except clause
FinishRequest ==
    /\ mpc = "calling"
    /\ pc = "done"
    /\ responses' = Append(responses,
                           [query |-> example_queries[qi],
                            agent |-> IF IsSeatQuery(example_queries[qi])
                                      THEN "Seat Booking Agent" ELSE "FAQ Agent",
                            args |-> args,
                            status |-> IF result.status = "returned" THEN "ok" ELSE "error",
                            resp |-> IF result.status = "returned" THEN retval ELSE NoResponse,
                            error |-> IF result.status = "raised" THEN result.kind ELSE "-"])
    /\ NextQuery
    /\ UNCHANGED <<callvars, heapvars, decorated, agents, example_queries, ctx_before>>

\* line 315
Complete ==
    /\ mpc = "loop"
    /\ qi > Len(example_queries)
    /\ mpc' = "complete"
    /\ UNCHANGED <<callvars, heapvars, decorated, agents, example_queries, qi, responses,
                   ctx_before>>

MainNext ==
    \/ CreateAgents
    \/ StartRequest
    \/ FinishRequest
    \/ Complete
    \/ DirectCall
    \/ DirectAwait
    \/ RunCall
    \/ RunAwait
    \/ ExecuteCall
    \/ ExecuteAwait
    \/ OnInvokeSetup
    \/ TryAttempt
    \/ AttemptAwait
    \/ ReadLastExc
    \/ Unwrap
    \/ UnwrapAwait

SpecMain == MainInit /\ [][MainNext]_vars

(***************************************************************************)
(* Vocabulary of the session properties                                    *)
(***************************************************************************)
\* between two queries: the last response is the one of the query just handled
Handled == mpc \in {"loop", "complete"} /\ Len(responses) > 0
LastResponse == responses[Len(responses)]
SeatOk(r) == r.agent = "Seat Booking Agent" /\ r.status = "ok"
FaqOk(r) == r.agent = "FAQ Agent" /\ r.status = "ok"
Fresh == ctx_before = <<AirlineAgentContext, RunContextWrapperObject>>
KindOf(r) ==
    LET t == IF r.agent = "Seat Booking Agent"
             THEN decorated.update_seat ELSE decorated.faq_lookup_tool
    IN  CHOOSE k \in ToolKinds : MainTool(k, t.body) = t
Edges == {e \in AgentNames \X AgentNames :
            /\ e[1] \in DOMAIN agents
            /\ \E i \in 1..Len(agents[e[1]].handoffs) : agents[e[1]].handoffs[i] = e[2]}
Reaches(a, b) ==
    \/ <<a, b>> \in Edges
    \/ \E c \in AgentNames : <<a, c>> \in Edges /\ <<c, b>> \in Edges
AwaitPcs == {"direct_await", "run_await", "execute_await", "attempt_await", "unwrap_await"}

\* C11: a seat update on a context with every field unset, handled for the
\* FunctionTool update_seat, leaves the AirlineAgentContext with the
\* confirmation number and the seat of the call and a flight number, returns
\* the message made of these three values, and leaves passenger_name alone.
C11_SeatUpdateEndToEnd ==
    (/\ Handled
     /\ SeatOk(LastResponse)
     /\ Fresh
     /\ decorated.update_seat = MainTool("FunctionTool", "update_seat"))
    => /\ shared_ctx.confirmation_number = LastResponse.args[2]
       /\ shared_ctx.seat_number = LastResponse.args[3]
       /\ shared_ctx.flight_number # NoneValue
       /\ LastResponse.resp = SeatMessage(LastResponse.args[3], LastResponse.args[2],
                                          shared_ctx.flight_number)
       /\ shared_ctx.passenger_name = ctx_before[1].passenger_name

\* C12: while a policy question is handled, and after it, the
\* AirlineAgentContext and the RunContextWrapper have the field values they
\* had when the query began, whatever earlier seat updates have set.
C12_FaqLeavesContext ==
    (/\ mpc \in {"calling", "loop", "complete"}
     /\ Len(responses) + (IF mpc = "calling" THEN 1 ELSE 0) > 0
     /\ ~IsSeatQuery(example_queries[IF mpc = "calling" THEN qi ELSE Len(responses)]))
    => <<shared_ctx, run_ctx>> = ctx_before

C12_Witness ==
    /\ Handled
    /\ FaqOk(LastResponse)
    /\ \E i \in 1..(Len(responses) - 1) : SeatOk(responses[i])
    /\ shared_ctx.flight_number # NoneValue
    /\ shared_ctx.confirmation_number # NoneValue
    /\ shared_ctx.seat_number # NoneValue

\* C13: the queries are handled once each in the order given, a query whose
\* tool has a supported shape gets its normal response whatever happened to
\* the others, and a query that failed left both context objects as they were.
C13_DispatchIsolation ==
    /\ mpc \in {"loop", "calling"} => Len(responses) = qi - 1
    /\ mpc = "complete" => Len(responses) = Len(example_queries)
    /\ \A i \in 1..Len(responses) :
         LET r == responses[i]
         IN /\ r.query = example_queries[i]
            /\ r.status = "ok" <=> KindOf(r) # "unsupported"
            /\ FaqOk(r) => r.resp = FaqAnswer(Str(r.query))
            /\ SeatOk(r) => /\ r.resp.new_seat = r.args[3]
                            /\ r.resp.confirmation_number = r.args[2]
                            /\ r.resp.flight_number \in FlightNumbers
    /\ (Handled /\ LastResponse.status = "error") => <<shared_ctx, run_ctx>> = ctx_before

C13_Witness ==
    /\ mpc = "complete"
    /\ Len(responses) = 3
    /\ FaqOk(responses[1])
    /\ responses[2].status = "error"
    /\ responses[2].error = "AttributeError"
    /\ FaqOk(responses[3])

\* C15: once create_agents has run, the FAQ agent and the seat agent each
\* have the one handoff to triage, triage has one handoff to each of them and
\* no other, each specialist has its one tool, every agent reaches every
\* other, and the graph stays so while the queries are handled.
C15_HandoffGraph ==
    mpc # "create_agents" =>
      /\ DOMAIN agents = AgentNames
      /\ agents["FAQ Agent"].handoffs = <<"Triage Agent">>
      /\ agents["Seat Booking Agent"].handoffs = <<"Triage Agent">>
      /\ Len(agents["Triage Agent"].handoffs) = 2
      /\ Edges = {<<"FAQ Agent", "Triage Agent">>, <<"Seat Booking Agent", "Triage Agent">>,
                  <<"Triage Agent", "FAQ Agent">>, <<"Triage Agent", "Seat Booking Agent">>}
      /\ agents["FAQ Agent"].tools = <<"faq_lookup_tool">>
      /\ agents["Seat Booking Agent"].tools = <<"update_seat">>
      /\ \A a, b \in AgentNames : a # b => Reaches(a, b)

C15_Witness ==
    /\ mpc = "complete"
    /\ Len(responses) = 3
    /\ \E i \in 1..3 : SeatOk(responses[i])
    /\ \E i \in 1..3 : FaqOk(responses[i])
    /\ DOMAIN agents = AgentNames

\* C16: at most one result of the tool is pending at any time and it belongs
\* to the latest call, which safe_invoke_tool is awaiting; nothing is pending
\* when safe_invoke_tool has decided (returned or raised); and a query is
\* being handled only when every earlier query has its response.
C16_NoRacing ==
    /\ Cardinality(pending) <= 1
    /\ pending # {} => pending = {Len(calls)}
    /\ (pending # {} /\ ~Done) => pc \in AwaitPcs
    /\ Done => pending = {}
    /\ mpc = "calling" => Len(responses) = qi - 1

\* C18: every context among the arguments of a call of the tool is the
\* session's run_ctx itself, the holder passed by forms (i) and (ii) refers to
\* that same object, and all seat updates of a session report the flight
\* number the first of them wrote.
C18_ContextSharedByReference ==
    /\ \A j \in 1..Len(calls) : \A n \in 1..Len(calls[j].args) :
         LET x == calls[j].args[n]
         IN /\ x.kind = "ctx" => x = RunContextWrapper
            /\ x.kind = "ToolCtx" => x.context = RunCtxArg(args)
            /\ (x.kind = "ToolCtx" /\ RunContextWrapper \in {args[m] : m \in 1..Len(args)})
                   => x.context = RunContextWrapper
    /\ \A i, j \in 1..Len(responses) :
         (SeatOk(responses[i]) /\ SeatOk(responses[j]))
            => responses[i].resp.flight_number = responses[j].resp.flight_number

C18_Witness ==
    /\ Handled
    /\ SeatOk(LastResponse)
    /\ \E i \in 1..(Len(responses) - 1) : SeatOk(responses[i])
    /\ \E j \in 1..Len(calls) :
         /\ calls[j].label = "i"
         /\ calls[j].args[1] = DummyToolCtx(RunContextWrapper)

\* C19: a flight number the AirlineAgentContext has when a query begins is
\* still its flight number afterwards, and between queries its
\* confirmation_number and seat_number are the arguments of the latest seat
\* update that succeeded.
C19_FlightNumberWriteOnce ==
    /\ ctx_before[1].flight_number # NoneValue
          => shared_ctx.flight_number = ctx_before[1].flight_number
    /\ \A i \in 1..Len(responses) :
         (/\ mpc \in {"loop", "complete"}
          /\ SeatOk(responses[i])
          /\ \A j \in (i + 1)..Len(responses) : ~SeatOk(responses[j]))
         => /\ shared_ctx.confirmation_number = responses[i].args[2]
            /\ shared_ctx.seat_number = responses[i].args[3]

(***************************************************************************)
(* The on_invoke_tool block alone (lines 117-218) on argument lists longer *)
(* than the list of names, passed positionally                             *)
(***************************************************************************)
PayloadTools ==
    {t \in Tools : /\ t.on_invoke_tool
                   /\ ~t.callable /\ ~t.run /\ ~t.execute
                   /\ t.attrs = NoAttrs}

PayloadArgLists ==
    {a \in SeqsUpTo(ArgValues, MaxPayloadArgs) :
        Cardinality({i \in 1..Len(a) : IsRunContextWrapper(a[i])}) <= 1}

PayloadInit ==
    /\ tool \in PayloadTools
    /\ args \in PayloadArgLists
    /\ kwargs = <<>>
    /\ pc = "on_invoke_tool"
    /\ idx = 0
    /\ last_exc = "unbound"
    /\ calls = <<>>
    /\ failed = {}
    /\ result = Running
    /\ retval = NoneValue
    /\ pending = {}
    /\ decorated = Decorated("FunctionTool", "FunctionTool")
    /\ agents = <<>>
    /\ example_queries = <<>>
    /\ qi = 0
    /\ mpc = "none"
    /\ responses = <<>>
    /\ shared_ctx = AirlineAgentContext
    /\ run_ctx = RunContextWrapperObject
    /\ ctx_before = <<shared_ctx, run_ctx>>

PayloadNext ==
    \/ OnInvokeSetup
    \/ TryAttempt
    \/ AttemptAwait

SpecPayload == PayloadInit /\ [][PayloadNext]_vars
====
